---- MODULE Spec2Model ----
(***************************************************************************)
(* The card-search proxy of pokemon-card-appraiser: the caching handler    *)
(* of api/cards.js, the retrying handler that precedes it and the handler  *)
(* that routes between two providers, each run on one instance whose event *)
(* loop interleaves invocations at their awaits; and the collection that   *)
(* the client keeps in the browser.                                        *)
(***************************************************************************)
EXTENDS Integers, Sequences, FiniteSets, TLC

VARIABLES now, ticks, cache, inv, res, net, env, collection, notice, storage,
          op, phase, pending, collectionType, failure, view, searchCards,
          isLoading, error, request

\* the proxy instance and the browser tab
server == <<now, ticks, cache, inv, res, net, env>>
collecting == <<collection, notice, storage, op, phase, pending,
                collectionType, failure, view>>
searching == <<searchCards, isLoading, error, request>>
client == <<collecting, searching>>
vars == <<server, client>>

(***************************************************************************)
(* Bounds of the model.                                                    *)
(***************************************************************************)
MaxReqs == 3
MaxInFlight == 2
MaxTicks == 1
MaxQueryReqs == 2
MaxRetryReqs == 2
MaxEvictReqs == 2
MaxMultiReqs == 2
MaxErrorReqs == 2
MaxCards == 4

Reqs == 1..MaxReqs

(***************************************************************************)
(* Program constants.                                                      *)
(***************************************************************************)
CACHE_TTL == 300000
CACHE_CEILING == 100
CARDS_TIMEOUT == 9000
RETRY_TIMEOUT == 8000
BACKOFF == 500
maxAttempts == 2
DEFAULT_LIMIT == 12
PRICE_TIMEOUT == 8000
TCG_TIMEOUT == 10000
PAGE_CAP == 20
DETAILS_MAX == 500

NoTimer == -1

(***************************************************************************)
(* Values.  A JSON body is a record; a query string is a sequence of       *)
(* <<name, value>> pairs in the order they appear in the URL.              *)
(***************************************************************************)
NoBody == [end |-> TRUE]
emptyResult == [data |-> <<>>, count |-> 0, totalCount |-> 0]

Payloads == {[data |-> <<"xy7-54">>], [data |-> <<"base1-4">>]}
Statuses == {200, 404, 429, 500, 503}
CardsStatuses == {200, 404, 500}
QueryStatuses == {200, 404}
ErrorStatuses == {200, 401, 403, 404, 429, 500, 503}

Max(a, b) == IF a >= b THEN a ELSE b

Digit(d) ==
  CASE d = 0 -> "0" [] d = 1 -> "1" [] d = 2 -> "2" [] d = 3 -> "3"
    [] d = 4 -> "4" [] d = 5 -> "5" [] d = 6 -> "6" [] d = 7 -> "7"
    [] d = 8 -> "8" [] d = 9 -> "9"

RECURSIVE NumToString(_)
NumToString(n) ==
  IF n < 10 THEN Digit(n) ELSE NumToString(n \div 10) \o Digit(n % 10)

statusText(s) ==
  CASE s = 200 -> "OK"
    [] s = 401 -> "Unauthorized"
    [] s = 403 -> "Forbidden"
    [] s = 404 -> "Not Found"
    [] s = 429 -> "Too Many Requests"
    [] s = 500 -> "Internal Server Error"
    [] s = 503 -> "Service Unavailable"

\* ok with every status taken for a success
okAny(s) == s >= 200

\* response.ok
ok(s) == s >= 200 /\ s <= 299

\* req.query: the object the runtime parses from the query string
ParseQuery(raw) ==
  [n \in {raw[i][1] : i \in DOMAIN raw} |->
     raw[CHOOSE i \in DOMAIN raw : raw[i][1] = n][2]]

\* a destructured parameter: "" stands for undefined, both are falsy
Param(q, n) == IF n \in DOMAIN q THEN q[n] ELSE ""

\* LimitText without the destructuring default: `${undefined}`
LimitTextNoDefault(q) ==
  IF "limit" \in DOMAIN q THEN q["limit"] ELSE "undefined"

\* `${limit}` with `limit = 12` as the destructuring default
LimitText(q) ==
  IF "limit" \in DOMAIN q THEN q["limit"] ELSE NumToString(DEFAULT_LIMIT)

\* the search parameters of the upstream URL: q, pageSize, orderBy
TcgUrl(q) ==
  [q |-> "name:" \o Param(q, "search") \o "*", pageSize |-> LimitText(q),
   orderBy |-> "name"]

\* const cacheKey = `${search}-${limit}`
CacheKey(q) == Param(q, "search") \o "-" \o LimitText(q)

\* Fresh with an entry as old as the TTL still served
FreshInclusive(c, k, t) == k \in DOMAIN c /\ t - c[k].timestamp <= CACHE_TTL

\* cached && Date.now() - cached.timestamp < CACHE_TTL
Fresh(c, k, t) == k \in DOMAIN c /\ t - c[k].timestamp < CACHE_TTL

\* CacheSet that stores nothing
CacheSetNothing(c, k, e) == c

\* cache.set(cacheKey, entry)
CacheSet(c, k, e) ==
  [x \in DOMAIN c \cup {k} |-> IF x = k THEN e ELSE c[x]]

\* if (cache.size > 100) delete every entry older than the TTL
Cleanup(c, t) ==
  IF Cardinality(DOMAIN c) > CACHE_CEILING
  THEN [k \in {x \in DOMAIN c : ~(t - c[x].timestamp > CACHE_TTL)} |-> c[k]]
  ELSE c

(***************************************************************************)
(* State.  inv[r] is invocation r of a handler, res[r] what was written to *)
(* its response object, net[r] the upstream calls it issued.               *)
(***************************************************************************)
IdleInv ==
  [pc |-> "idle", handler |-> "", method |-> "", raw |-> <<>>,
   key |-> "", attempts |-> 0, timer |-> NoTimer, aborted |-> FALSE,
   wake |-> 0, lastError |-> "", xcache |-> "", provider |-> "",
   url |-> <<>>]

NoRes == [sent |-> 0, status |-> 0, body |-> NoBody, xcache |-> "", at |-> 0]

\* process.env without the provider credential
NoEnv == [POKEMON_API_KEY |-> ""]

Call(t) == [at |-> t, outcome |-> "pending", status |-> 0, payload |-> NoBody,
            endAt |-> 0]

\* JSON.stringify of a card and of the collection
CardJson(card) ==
  "{\"id\":\"" \o card.id \o "\",\"name\":\"" \o card.name \o "\"}"

RECURSIVE CardsJson(_)
CardsJson(cards) ==
  IF cards = <<>> THEN ""
  ELSE (IF Len(cards) > 1
        THEN CardsJson(SubSeq(cards, 1, Len(cards) - 1)) \o "," ELSE "")
       \o CardJson(cards[Len(cards)])

Stringify(cards) == "[" \o CardsJson(cards) \o "]"

NoOp == [name |-> "none"]

\* null, as a state value
Null == "null"

\* no search was made yet
NoRequest == [state |-> "none"]

\* what CollectionList shows of an empty collection: no total, no entries
EmptyView == [total |-> "", labels |-> <<>>]

\* no state update is scheduled
NoPending == [set |-> FALSE]

\* the tab after its first render with nothing stored: useState([]), and
\* the save effect has written the empty collection
InitClient ==
  /\ collection = <<>>
  /\ notice = ""
  /\ storage = [pokemonCollection |-> Stringify(<<>>)]
  /\ op = NoOp
  /\ phase = "ready"
  /\ pending = NoPending
  /\ collectionType = "array"
  /\ failure = ""
  /\ view = EmptyView
  /\ searchCards = <<>>
  /\ isLoading = FALSE
  /\ error = Null
  /\ request = NoRequest

Init ==
  /\ now = 0
  /\ ticks = 0
  /\ cache = <<>>
  /\ inv = [r \in Reqs |-> IdleInv]
  /\ res = [r \in Reqs |-> NoRes]
  /\ net = [r \in Reqs |-> <<>>]
  /\ env = NoEnv
  /\ InitClient

InFlight == Cardinality({r \in Reqs : inv[r].pc \notin {"idle", "done"}})

\* Send without the X-Cache header set before it
SendNoXCache(r, i, t, s, body) ==
  /\ inv' = [inv EXCEPT ![r] = [i EXCEPT !.pc = "done"]]
  /\ res' = [res EXCEPT ![r] = [sent |-> @.sent + 1, status |-> s,
                                body |-> body, xcache |-> "", at |-> t]]

\* res.status(s).json(body) and return: the invocation ends
Send(r, i, t, s, body) ==
  /\ inv' = [inv EXCEPT ![r] = [i EXCEPT !.pc = "done"]]
  /\ res' = [res EXCEPT ![r] = [sent |-> @.sent + 1, status |-> s,
                                body |-> body, xcache |-> i.xcache, at |-> t]]

\* response.status of the last upstream call of r
LastCallStatus(r) == net[r][Len(net[r])].status

\* the last upstream call of r is closed with its outcome
EndCall(r, t, outcome, s, p) ==
  [net EXCEPT ![r][Len(net[r])] =
     [@ EXCEPT !.outcome = outcome, !.status = s, !.payload = p, !.endAt = t]]

(***************************************************************************)
(* Requests the model feeds the handlers.                                  *)
(***************************************************************************)
Req(m, raw) == [method |-> m, raw |-> raw]

\* the requests of the overlapping runs
Requests ==
  {Req("GET", <<<<"search", "pikachu">>>>),
   Req("GET", <<<<"search", "mew">>>>),
   Req("POST", <<<<"search", "pikachu">>>>)}

\* the requests of the one-at-a-time runs: parameter order, defaults written
\* out, the other recognized parameters, the separator inside a value
QueryRequests ==
  {Req("GET", <<<<"search", "pikachu">>>>),
   Req("GET", <<<<"search", "pikachu">>, <<"limit", "12">>>>),
   Req("GET", <<<<"limit", "12">>, <<"search", "pikachu">>>>),
   Req("GET", <<<<"search", "pikachu">>, <<"provider", "tcg">>,
               <<"includeHistory", "false">>>>),
   Req("GET", <<<<"search", "pikachu">>, <<"provider", "pricetracker">>>>),
   Req("GET", <<<<"search", "pikachu">>, <<"limit", "5">>>>),
   Req("GET", <<<<"search", "a-1">>, <<"limit", "2">>>>),
   Req("GET", <<<<"search", "a">>, <<"limit", "1-2">>>>),
   Req("GET", <<<<"setId", "base1">>>>),
   Req("GET", <<>>),
   Req("POST", <<<<"search", "pikachu">>>>),
   Req("OPTIONS", <<>>)}

\* the requests of the runs against an upstream of any behaviour: no limit,
\* a limit under and one over the cap
ErrorRequests ==
  {Req("GET", <<<<"search", "pikachu">>>>),
   Req("GET", <<<<"search", "pikachu">>, <<"limit", "5">>>>),
   Req("GET", <<<<"search", "pikachu">>, <<"limit", "50">>>>),
   Req("POST", <<<<"search", "pikachu">>>>)}

RetryRequests ==
  {Req("GET", <<<<"search", "pikachu">>>>),
   Req("GET", <<>>),
   Req("POST", <<<<"search", "pikachu">>>>),
   Req("OPTIONS", <<>>)}

TimeSteps == {CACHE_TTL - 1, CACHE_TTL, CACHE_TTL + 1}

\* MethodAllowed with every method let through
MethodAllowedAny(method) == TRUE

\* req.method !== 'GET' is answered 405
MethodAllowed(method) == method = "GET"

\* invocations are numbered in the order they arrive
Arrives(r, inflight) ==
  /\ inv[r].pc = "idle"
  /\ r > 1 => inv[r - 1].pc /= "idle"
  /\ InFlight < inflight

Arrived(r, h, method, raw) ==
  [IdleInv EXCEPT !.handler = h, !.method = method, !.raw = raw]

(***************************************************************************)
(* api/cards.js: the caching handler, one upstream attempt.                *)
(***************************************************************************)
\* the handler up to its first await
ReceiveCards(r, method, raw, inflight) ==
  LET q == ParseQuery(raw)
      k == CacheKey(q)
      i == Arrived(r, "cards", method, raw)
  IN  /\ Arrives(r, inflight)
      /\ IF method = "OPTIONS"
         THEN Send(r, i, now, 200, NoBody) /\ UNCHANGED net
         ELSE IF ~MethodAllowed(method)
         THEN Send(r, i, now, 405, [error |-> "Method not allowed"])
              /\ UNCHANGED net
         ELSE IF Param(q, "search") = ""
         THEN Send(r, i, now, 400, [error |-> "Search parameter is required"])
              /\ UNCHANGED net
         ELSE IF Fresh(cache, k, now)
         THEN Send(r, [i EXCEPT !.key = k, !.xcache = "HIT"], now, 200,
                   cache[k].data)
              /\ UNCHANGED net
         ELSE /\ inv' = [inv EXCEPT ![r] =
                           [i EXCEPT !.pc = "fetch", !.key = k,
                                     !.xcache = "MISS",
                                     !.url = TcgUrl(q),
                                     !.timer = now + CARDS_TIMEOUT]]
              /\ net' = [net EXCEPT ![r] = Append(@, Call(now))]
              /\ UNCHANGED res
      /\ UNCHANGED <<now, ticks, cache, env, client>>

\* await fetch(...) resolves with the upstream's status line
ResolveCards(r, s) ==
  LET i == [inv[r] EXCEPT !.timer = NoTimer]
  IN  /\ inv[r].handler = "cards" /\ inv[r].pc = "fetch"
      /\ net' = EndCall(r, now, "response", s, NoBody)
      /\ IF ~ok(s)
         THEN IF s = 404
              THEN /\ cache' = CacheSet(cache, i.key,
                                 [data |-> emptyResult, timestamp |-> now])
                   /\ Send(r, i, now, 200, emptyResult)
              ELSE /\ Send(r, i, now, s,
                        [error |-> "Pokemon TCG API error: " \o statusText(s)])
                   /\ UNCHANGED cache
         ELSE /\ inv' = [inv EXCEPT ![r] = [i EXCEPT !.pc = "body"]]
              /\ UNCHANGED <<res, cache>>
      /\ UNCHANGED <<now, ticks, env, client>>

\* await response.json() resolves with the body
BodyCards(r, p) ==
  /\ inv[r].handler = "cards" /\ inv[r].pc = "body"
  /\ net' = EndCall(r, now, "response", net[r][Len(net[r])].status, p)
  /\ cache' = Cleanup(CacheSet(cache, inv[r].key,
                               [data |-> p, timestamp |-> now]), now)
  /\ Send(r, inv[r], now, 200, p)
  /\ UNCHANGED <<now, ticks, env, client>>

\* ErrorCards storing the envelope it sends under the key of the request
ErrorCardsCaching(r) ==
  /\ inv[r].handler = "cards" /\ inv[r].pc \in {"fetch", "body"}
  /\ net' = EndCall(r, now, "error", net[r][Len(net[r])].status, NoBody)
  /\ cache' = CacheSet(cache, inv[r].key,
                       [data |-> [error |-> "Failed to fetch cards",
                                  message |-> "fetch failed"],
                        timestamp |-> now])
  /\ Send(r, [inv[r] EXCEPT !.timer = NoTimer], now, 500,
          [error |-> "Failed to fetch cards", message |-> "fetch failed"])
  /\ UNCHANGED <<now, ticks, env, client>>

\* fetch or the body read rejects with a network error: rethrown to the outer catch
ErrorCards(r) ==
  /\ inv[r].handler = "cards" /\ inv[r].pc \in {"fetch", "body"}
  /\ net' = EndCall(r, now, "error", net[r][Len(net[r])].status, NoBody)
  /\ Send(r, [inv[r] EXCEPT !.timer = NoTimer], now, 500,
          [error |-> "Failed to fetch cards", message |-> "fetch failed"])
  /\ UNCHANGED <<now, ticks, cache, env, client>>

\* the 9 s timer fires: controller.abort(), the pending fetch rejects with AbortError
TimeoutCards(r) ==
  LET t == Max(now, inv[r].timer)
  IN  /\ inv[r].handler = "cards" /\ inv[r].pc = "fetch"
      /\ inv[r].timer /= NoTimer
      /\ now' = t
      /\ net' = EndCall(r, t, "abort", 0, NoBody)
      /\ Send(r, [inv[r] EXCEPT !.timer = NoTimer, !.aborted = TRUE], t, 504,
              [error |-> "The Pokemon API is taking too long to respond. Please try again in a moment.",
               message |-> "Request Timeout"])
      /\ UNCHANGED <<ticks, cache, env, client>>

(***************************************************************************)
(* The retrying handler: no cache, up to maxAttempts upstream attempts.    *)
(***************************************************************************)
\* Retryable without the attempt budget
RetryableAlways(s, attempts) == s >= 500

\* Retryable without the status test
RetryableAny(s, attempts) == attempts < maxAttempts

\* if (response.status >= 500 && attempts < maxAttempts)
Retryable(s, attempts) == s >= 500 /\ attempts < maxAttempts

\* CatchRetries without the attempt budget
CatchRetriesAlways(name, attempts) == TRUE

\* catch (fetchError): both branches retry while attempts < maxAttempts
CatchRetries(name, attempts) == attempts < maxAttempts

\* AllFailed with one status for every error
AllFailedSame(r, i, t) ==
  Send(r, [i EXCEPT !.timer = NoTimer], t, 500,
       [error |-> "Failed to fetch cards after multiple attempts",
        message |-> "fetch failed"])

\* after the loop: clearTimeout, then 504 for an AbortError, 500 otherwise
AllFailed(r, i, t) ==
  IF i.lastError = "AbortError"
  THEN Send(r, [i EXCEPT !.timer = NoTimer], t, 504,
            [error |-> "Request timeout - Pokemon TCG API is taking too long to respond. Please try again.",
             message |-> "Gateway Timeout"])
  ELSE Send(r, [i EXCEPT !.timer = NoTimer], t, 500,
            [error |-> "Failed to fetch cards after multiple attempts",
             message |-> "fetch failed"])

\* Backoff without the wait
BackoffNone(r, i, t) ==
  /\ inv' = [inv EXCEPT ![r] = [i EXCEPT !.pc = "backoff", !.wake = t]]
  /\ UNCHANGED res

\* await new Promise(resolve => setTimeout(resolve, 500)); continue
Backoff(r, i, t) ==
  /\ inv' = [inv EXCEPT ![r] = [i EXCEPT !.pc = "backoff", !.wake = t + BACKOFF]]
  /\ UNCHANGED res

\* the catch block of the loop body
Catch(r, i, t, name) ==
  LET j == [i EXCEPT !.lastError = name]
  IN  IF CatchRetries(name, j.attempts) THEN Backoff(r, j, t)
      ELSE AllFailed(r, j, t)

ReceiveRetry(r, method, raw, inflight) ==
  LET q == ParseQuery(raw)
      i == Arrived(r, "retry", method, raw)
  IN  /\ Arrives(r, inflight)
      /\ IF method = "OPTIONS"
         THEN Send(r, i, now, 200, NoBody) /\ UNCHANGED net
         ELSE IF ~MethodAllowed(method)
         THEN Send(r, i, now, 405, [error |-> "Method not allowed"])
              /\ UNCHANGED net
         ELSE IF Param(q, "search") = ""
         THEN Send(r, i, now, 400, [error |-> "Search parameter is required"])
              /\ UNCHANGED net
         ELSE /\ inv' = [inv EXCEPT ![r] =
                           [i EXCEPT !.pc = "fetch", !.attempts = 1,
                                     !.url = TcgUrl(q),
                                     !.timer = now + RETRY_TIMEOUT]]
              /\ net' = [net EXCEPT ![r] = Append(@, Call(now))]
              /\ UNCHANGED res
      /\ UNCHANGED <<now, ticks, cache, env, client>>

ResolveRetry(r, s) ==
  LET i == [inv[r] EXCEPT !.timer = NoTimer]
  IN  /\ inv[r].handler = "retry" /\ inv[r].pc = "fetch"
      /\ net' = EndCall(r, now, "response", s, NoBody)
      /\ IF ~ok(s)
         THEN IF s = 404
              THEN Send(r, i, now, 404, [error |-> "No cards found", data |-> <<>>])
              ELSE IF Retryable(s, i.attempts)
              THEN Backoff(r, i, now)
              ELSE Send(r, i, now, s,
                        [error |-> "Pokemon TCG API error: " \o statusText(s)])
         ELSE /\ inv' = [inv EXCEPT ![r] = [i EXCEPT !.pc = "body"]]
              /\ UNCHANGED res
      /\ UNCHANGED <<now, ticks, cache, env, client>>

BodyRetry(r, p) ==
  /\ inv[r].handler = "retry" /\ inv[r].pc = "body"
  /\ net' = EndCall(r, now, "response", net[r][Len(net[r])].status, p)
  /\ Send(r, inv[r], now, 200, p)
  /\ UNCHANGED <<now, ticks, cache, env, client>>

\* fetch or the body read rejects with a network error
ErrorRetry(r) ==
  /\ inv[r].handler = "retry" /\ inv[r].pc \in {"fetch", "body"}
  /\ net' = EndCall(r, now, "error", net[r][Len(net[r])].status, NoBody)
  /\ Catch(r, inv[r], now, "FetchError")
  /\ UNCHANGED <<now, ticks, cache, env, client>>

\* the 8 s timer, armed once before the loop, fires: controller.abort()
TimeoutRetry(r) ==
  LET t == Max(now, inv[r].timer)
      i == [inv[r] EXCEPT !.timer = NoTimer, !.aborted = TRUE]
  IN  /\ inv[r].handler = "retry" /\ inv[r].pc \in {"fetch", "backoff"}
      /\ inv[r].timer /= NoTimer
      /\ now' = t
      /\ IF inv[r].pc = "fetch"
         THEN /\ net' = EndCall(r, t, "abort", 0, NoBody)
              /\ Catch(r, i, t, "AbortError")
         ELSE /\ inv' = [inv EXCEPT ![r] = i]
              /\ UNCHANGED <<res, net>>
      /\ UNCHANGED <<ticks, cache, env, client>>

\* the backoff ends and the loop runs again; fetch with an aborted signal
\* rejects at once with AbortError and sends nothing upstream
AgainRetry(r) ==
  LET t == Max(now, inv[r].wake)
      i == [inv[r] EXCEPT !.attempts = @ + 1]
  IN  /\ inv[r].handler = "retry" /\ inv[r].pc = "backoff"
      /\ now' = t
      /\ IF i.aborted
         THEN Catch(r, i, t, "AbortError") /\ UNCHANGED net
         ELSE /\ inv' = [inv EXCEPT ![r] = [i EXCEPT !.pc = "fetch"]]
              /\ net' = [net EXCEPT ![r] = Append(@, Call(t))]
              /\ UNCHANGED res
      /\ UNCHANGED <<ticks, cache, env, client>>

\* time passes; only the age of a cache entry depends on it
Tick(d) ==
  /\ ticks < MaxTicks
  /\ DOMAIN cache /= {}
  /\ now' = now + d
  /\ ticks' = ticks + 1
  /\ UNCHANGED <<cache, inv, res, net, env, client>>

\* one instance of api/cards.js, invocations overlapping at their awaits
Next ==
  \/ \E r \in Reqs, q \in Requests :
       ReceiveCards(r, q.method, q.raw, MaxInFlight)
  \/ \E r \in Reqs, s \in CardsStatuses : ResolveCards(r, s)
  \/ \E r \in Reqs, p \in Payloads : BodyCards(r, p)
  \/ \E r \in Reqs : ErrorCards(r)
  \/ \E r \in Reqs : TimeoutCards(r)
  \/ \E d \in TimeSteps : Tick(d)

Spec == Init /\ [][Next]_vars

\* one instance of api/cards.js serving one request at a time, the upstream
\* answering every call
NextQuery ==
  \/ \E r \in 1..MaxQueryReqs, q \in QueryRequests :
       ReceiveCards(r, q.method, q.raw, 1)
  \/ \E r \in Reqs, s \in QueryStatuses : ResolveCards(r, s)
  \/ \E r \in Reqs, p \in Payloads : BodyCards(r, p)
  \/ \E d \in TimeSteps : Tick(d)

SpecQuery == Init /\ [][NextQuery]_vars

\* one instance of api/cards.js serving one request at a time, the upstream
\* answering with any status, failing or staying silent
NextErrors ==
  \/ \E r \in 1..MaxErrorReqs, q \in ErrorRequests :
       ReceiveCards(r, q.method, q.raw, 1)
  \/ \E r \in Reqs, s \in ErrorStatuses : ResolveCards(r, s)
  \/ \E r \in Reqs, p \in Payloads : BodyCards(r, p)
  \/ \E r \in Reqs : ErrorCards(r)
  \/ \E r \in Reqs : TimeoutCards(r)

SpecErrors == Init /\ [][NextErrors]_vars

\* one instance of the retrying handler; it keeps no state between requests
NextRetry ==
  \/ \E r \in 1..MaxRetryReqs, q \in RetryRequests :
       ReceiveRetry(r, q.method, q.raw, 1)
  \/ \E r \in Reqs, s \in Statuses : ResolveRetry(r, s)
  \/ \E r \in Reqs, p \in Payloads : BodyRetry(r, p)
  \/ \E r \in Reqs : ErrorRetry(r)
  \/ \E r \in Reqs : TimeoutRetry(r)
  \/ \E r \in Reqs : AgainRetry(r)

SpecRetry == Init /\ [][NextRetry]_vars

\* what the event loop of the instance runs by itself: a timer that is armed
\* fires, and the wait before a retry ends; when the upstream answers is
\* not the handler's to decide
RetryTimers ==
  \/ \E r \in Reqs : TimeoutRetry(r)
  \/ \E r \in Reqs : AgainRetry(r)

SpecRetryFair == SpecRetry /\ WF_vars(RetryTimers)

(***************************************************************************)
(* The two-provider handler: provider=pricetracker needs the credential of *)
(* process.env, every other provider value goes to the open TCG API.       *)
(***************************************************************************)
\* the result of Number(text) when text is no decimal numeral
NaN == -1

DigitValue(c) ==
  CASE c = "0" -> 0 [] c = "1" -> 1 [] c = "2" -> 2 [] c = "3" -> 3
    [] c = "4" -> 4 [] c = "5" -> 5 [] c = "6" -> 6 [] c = "7" -> 7
    [] c = "8" -> 8 [] c = "9" -> 9 [] OTHER -> NaN

\* the number Math.min coerces a query value to; "" is 0
RECURSIVE ToNumber(_)
ToNumber(text) ==
  IF Len(text) = 0 THEN 0
  ELSE LET h == ToNumber(SubSeq(text, 1, Len(text) - 1))
           d == DigitValue(SubSeq(text, Len(text), Len(text)))
       IN  IF h = NaN \/ d = NaN THEN NaN ELSE 10 * h + d

\* Math.min(limit, 20) as searchParams.set writes it
ClampText(q) ==
  LET n == IF "limit" \in DOMAIN q THEN ToNumber(q["limit"]) ELSE DEFAULT_LIMIT
  IN  IF n = NaN THEN "NaN"
      ELSE IF n < PAGE_CAP THEN NumToString(n) ELSE NumToString(PAGE_CAP)

\* `${search}`: undefined is written out
TemplateText(q, n) == IF n \in DOMAIN q THEN q[n] ELSE "undefined"

\* const cacheKey = `tcg_${search}_${limit}`
TcgKey(q) == "tcg_" \o TemplateText(q, "search") \o "_" \o LimitText(q)

\* JSON.stringify(req.query): the parameters in the order of the URL
RECURSIVE JsonMembers(_)
JsonMembers(raw) ==
  IF raw = <<>> THEN ""
  ELSE (IF Len(raw) > 1 THEN JsonMembers(SubSeq(raw, 1, Len(raw) - 1)) \o ","
        ELSE "")
       \o "\"" \o raw[Len(raw)][1] \o "\":\"" \o raw[Len(raw)][2] \o "\""

JsonStringify(raw) == "{" \o JsonMembers(raw) \o "}"

\* provider = 'tcg' as the destructuring default
ProviderOf(q) == IF "provider" \in DOMAIN q THEN q["provider"] ELSE "tcg"

\* the search parameters handleTCGAPI sends
MultiTcgUrl(q) ==
  [q |-> "name:\"" \o TemplateText(q, "search") \o "*\"",
   pageSize |-> ClampText(q), orderBy |-> "name"]

\* the search parameters handlePriceTrackerAPI sends: the filters that are
\* set, then limit, includeHistory and sortBy
PriceTrackerUrl(q) ==
  LET filters == {n \in {"search", "setId", "minPrice", "maxPrice", "rarity"} :
                    Param(q, n) /= ""}
  IN  [n \in filters \cup {"limit", "includeHistory", "sortBy"} |->
         CASE n = "limit" -> ClampText(q)
           [] n = "includeHistory" ->
                IF n \in DOMAIN q THEN q[n] ELSE "false"
           [] n = "sortBy" -> "name"
           [] OTHER -> q[n]]

\* The credential check without effect
KeyMissingNever(e) == FALSE

\* !POKEMON_API_KEY
KeyMissing(e) == e.POKEMON_API_KEY = ""

\* the upstream's error text, and errorText.substring(0, 500)
errorText == "{\"error\":\"upstream\"}"
Details(text) ==
  SubSeq(text, 1, IF Len(text) < DETAILS_MAX THEN Len(text) ELSE DETAILS_MAX)

\* cache.get, then the cached answer or the upstream call
CacheOrFetch(r, i, k, url, timeout) ==
  IF Fresh(cache, k, now)
  THEN Send(r, [i EXCEPT !.key = k, !.xcache = "HIT"], now, 200, cache[k].data)
       /\ UNCHANGED net
  ELSE /\ inv' = [inv EXCEPT ![r] =
                    [i EXCEPT !.pc = "fetch", !.key = k, !.xcache = "MISS",
                              !.url = url, !.timer = now + timeout]]
       /\ net' = [net EXCEPT ![r] = Append(@, Call(now))]
       /\ UNCHANGED res

\* handler, and handlePriceTrackerAPI or handleTCGAPI up to the first await
ReceiveMulti(r, method, raw, inflight) ==
  LET q == ParseQuery(raw)
      i == Arrived(r, "multi", method, raw)
      j == [i EXCEPT !.provider = ProviderOf(q)]
  IN  /\ Arrives(r, inflight)
      /\ IF method = "OPTIONS"
         THEN Send(r, i, now, 200, NoBody) /\ UNCHANGED net
         ELSE IF ~MethodAllowed(method)
         THEN Send(r, i, now, 405, [error |-> "Method not allowed"])
              /\ UNCHANGED net
         ELSE IF Param(q, "search") = "" /\ Param(q, "setId") = ""
         THEN Send(r, i, now, 400,
                   [error |-> "Search or setId parameter is required"])
              /\ UNCHANGED net
         ELSE IF ProviderOf(q) = "pricetracker"
         THEN IF KeyMissing(env)
              THEN Send(r, j, now, 500,
                        [error |-> "Server configuration error",
                         message |-> "POKEMON_API_KEY environment variable is not set for Price Tracker API"])
                   /\ UNCHANGED net
              ELSE CacheOrFetch(r, j, JsonStringify(raw), PriceTrackerUrl(q),
                                PRICE_TIMEOUT)
         ELSE CacheOrFetch(r, j, TcgKey(q), MultiTcgUrl(q), TCG_TIMEOUT)
      /\ UNCHANGED <<now, ticks, cache, env, client>>

\* await fetch(...) resolves: clearTimeout, then the body is read
ResolveMulti(r, s) ==
  /\ inv[r].handler = "multi" /\ inv[r].pc = "fetch"
  /\ net' = EndCall(r, now, "response", s, NoBody)
  /\ inv' = [inv EXCEPT ![r] =
               [@ EXCEPT !.timer = NoTimer,
                         !.pc = IF ok(s) THEN "body" ELSE "text"]]
  /\ UNCHANGED <<now, ticks, cache, res, env, client>>

\* await response.text() resolves: the error envelope of the provider
TextMulti(r) ==
  LET s == LastCallStatus(r)
      d == Details(errorText)
  IN  /\ inv[r].handler = "multi" /\ inv[r].pc = "text"
      /\ IF inv[r].provider = "pricetracker" /\ s = 429
         THEN Send(r, inv[r], now, 429,
                   [error |-> "Rate limit exceeded",
                    message |-> "The API rate limit has been reached. Please wait a moment and try again.",
                    details |-> d])
         ELSE IF inv[r].provider = "pricetracker" /\ s \in {401, 403}
         THEN Send(r, inv[r], now, s,
                   [error |-> "API authentication error",
                    message |-> "There is an issue with the API key. Please check your POKEMON_API_KEY environment variable.",
                    details |-> d])
         ELSE Send(r, inv[r], now, s,
                   [error |-> (IF inv[r].provider = "pricetracker"
                               THEN "Pokemon API error: "
                               ELSE "Pokemon TCG API error: ") \o statusText(s),
                    message |-> "HTTP " \o NumToString(s),
                    details |-> d])
      /\ UNCHANGED <<now, ticks, cache, net, env, client>>

\* await response.json() resolves: cache.set, cleanup, 200
BodyMulti(r, p) ==
  /\ inv[r].handler = "multi" /\ inv[r].pc = "body"
  /\ net' = EndCall(r, now, "response", LastCallStatus(r), p)
  /\ cache' = Cleanup(CacheSet(cache, inv[r].key,
                               [data |-> p, timestamp |-> now]), now)
  /\ Send(r, inv[r], now, 200, p)
  /\ UNCHANGED <<now, ticks, env, client>>

\* fetch or a body read rejects with a network error: rethrown to the
\* catch of the provider function
ErrorMulti(r) ==
  /\ inv[r].handler = "multi" /\ inv[r].pc \in {"fetch", "body", "text"}
  /\ net' = EndCall(r, now, "error", LastCallStatus(r), NoBody)
  /\ Send(r, [inv[r] EXCEPT !.timer = NoTimer], now, 500,
          [error |-> IF inv[r].provider = "pricetracker"
                     THEN "Failed to fetch cards from Price Tracker"
                     ELSE "Failed to fetch cards from TCG API",
           message |-> "fetch failed"])
  /\ UNCHANGED <<now, ticks, cache, env, client>>

\* the timer of the provider fires: controller.abort()
TimeoutMulti(r) ==
  LET t == Max(now, inv[r].timer)
  IN  /\ inv[r].handler = "multi" /\ inv[r].pc = "fetch"
      /\ inv[r].timer /= NoTimer
      /\ now' = t
      /\ net' = EndCall(r, t, "abort", 0, NoBody)
      /\ Send(r, [inv[r] EXCEPT !.timer = NoTimer, !.aborted = TRUE], t, 504,
              [error |-> IF inv[r].provider = "pricetracker"
                         THEN "The Pokemon API is taking too long to respond. Please try again."
                         ELSE "The Pokemon TCG API is taking too long to respond. Please try again.",
               message |-> "Request Timeout"])
      /\ UNCHANGED <<ticks, cache, env, client>>

MultiRequests ==
  {Req("GET", <<<<"search", "pikachu">>>>),
   Req("GET", <<<<"search", "pikachu">>, <<"provider", "pricetracker">>>>),
   Req("GET", <<<<"search", "pikachu">>, <<"provider", "ebay">>>>),
   Req("GET", <<<<"search", "pikachu">>, <<"limit", "50">>>>),
   Req("GET", <<<<"search", "pikachu">>, <<"limit", "50">>,
               <<"provider", "pricetracker">>>>),
   Req("GET", <<<<"setId", "base1">>>>),
   Req("GET", <<<<"setId", "base1">>, <<"provider", "pricetracker">>>>),
   Req("GET", <<<<"provider", "pricetracker">>>>),
   Req("OPTIONS", <<>>)}

MultiStatuses == {200, 401, 404, 429, 500}

\* the credential is set in the environment of the process or it is not
Envs == {NoEnv, [POKEMON_API_KEY |-> "pokeprice_free_key"]}

InitMulti ==
  /\ now = 0
  /\ ticks = 0
  /\ cache = <<>>
  /\ inv = [r \in Reqs |-> IdleInv]
  /\ res = [r \in Reqs |-> NoRes]
  /\ net = [r \in Reqs |-> <<>>]
  /\ env \in Envs
  /\ InitClient

\* one instance of the two-provider handler serving one request at a time
NextMulti ==
  \/ \E r \in 1..MaxMultiReqs, q \in MultiRequests :
       ReceiveMulti(r, q.method, q.raw, 1)
  \/ \E r \in Reqs, s \in MultiStatuses : ResolveMulti(r, s)
  \/ \E r \in Reqs : TextMulti(r)
  \/ \E r \in Reqs, p \in Payloads : BodyMulti(r, p)
  \/ \E r \in Reqs : ErrorMulti(r)
  \/ \E r \in Reqs : TimeoutMulti(r)

SpecMulti == InitMulti /\ [][NextMulti]_vars

(***************************************************************************)
(* api/cards.js on an instance whose table is at the ceiling.              *)
(***************************************************************************)
\* the key of an earlier request for the card number x
EntryKey(x) == NumToString(x) \o "-" \o NumToString(DEFAULT_LIMIT)

\* a table of n entries written by n earlier requests at times 0, 1 and 2
FullCache(n) ==
  [k \in {EntryKey(x) : x \in 1..n} |->
     [data |-> [data |-> <<"xy7-54">>],
      timestamp |-> (CHOOSE x \in 1..n : EntryKey(x) = k) % 3]]

\* a new key, the key of an entry as old as the TTL, the key of a younger one
EvictRequests ==
  {Req("GET", <<<<"search", "pikachu">>>>),
   Req("GET", <<<<"search", "1">>>>),
   Req("GET", <<<<"search", "2">>>>)}

\* the entries are older than the TTL, as old, and younger
InitEvict ==
  /\ now = CACHE_TTL + 1
  /\ ticks = 0
  /\ \E n \in {CACHE_CEILING - 1, CACHE_CEILING, CACHE_CEILING + 1} :
       cache = FullCache(n)
  /\ inv = [r \in Reqs |-> IdleInv]
  /\ res = [r \in Reqs |-> NoRes]
  /\ net = [r \in Reqs |-> <<>>]
  /\ env = NoEnv
  /\ InitClient

NextEvict ==
  \/ \E r \in 1..MaxEvictReqs, q \in EvictRequests :
       ReceiveCards(r, q.method, q.raw, 1)
  \/ \E r \in Reqs, s \in QueryStatuses : ResolveCards(r, s)
  \/ \E r \in Reqs, p \in Payloads : BodyCards(r, p)
  \/ \E d \in TimeSteps : Tick(d)

SpecEvict == InitEvict /\ [][NextEvict]_vars

(***************************************************************************)
(* The collection of the client (App): one click is one handler call, and  *)
(* the component is rendered again, its save effect run, before the next.  *)
(***************************************************************************)
\* the cards the search results offer: one identifier comes from both
\* providers with different fields
Cards ==
  {[id |-> "xy7-54", name |-> "Pikachu"],
   [id |-> "xy7-54", name |-> "Pikachu XY"],
   [id |-> "base1-4", name |-> "Charizard"],
   [id |-> "base1-58", name |-> "Pikachu"],
   [id |-> "sm1-1", name |-> "Caterpie"]}

DuplicateNotice == "This card is already in your collection!"

\* isAlreadyInCollection comparing the card objects
isAlreadyInCollectionSameObject(cards, card) ==
  \E i \in DOMAIN cards : cards[i] = card

\* collection.some(c => c.id === card.id)
isAlreadyInCollection(cards, card) ==
  \E i \in DOMAIN cards : cards[i].id = card.id

\* RemoveAt with the positions counted from 1
RemoveAtOneBased(cards, index) ==
  IF index \in 1..Len(cards)
  THEN [j \in 1..(Len(cards) - 1) |-> IF j < index THEN cards[j] ELSE cards[j + 1]]
  ELSE cards

\* collection.filter((_, i) => i !== index), positions counted from 0
RECURSIVE RemoveAt(_, _)
RemoveAt(cards, index) ==
  IF cards = <<>> THEN <<>>
  ELSE LET front == RemoveAt(SubSeq(cards, 1, Len(cards) - 1), index)
       IN  IF Len(cards) - 1 /= index THEN Append(front, cards[Len(cards)])
           ELSE front

\* a save effect that writes the collection of the previous render
SavedStale(cards) == [storage EXCEPT !.pokemonCollection = Stringify(collection)]

\* useEffect(() => localStorage.setItem(...), [collection])
Saved(cards) == [storage EXCEPT !.pokemonCollection = Stringify(cards)]

\* collection.some of a state value that is not an array throws inside the
\* click handler: nothing is set
SomeError == "TypeError: collection.some is not a function"

handleAddToCollection(card) ==
  /\ phase = "ready"
  /\ op' = [name |-> "add", card |-> card]
  /\ IF collectionType /= "array"
     THEN /\ failure' = SomeError
          /\ UNCHANGED <<collection, notice, storage>>
     ELSE /\ IF isAlreadyInCollection(collection, card)
             THEN /\ notice' = DuplicateNotice
                  /\ UNCHANGED <<collection, storage>>
             ELSE /\ Len(collection) < MaxCards
                  /\ collection' = Append(collection, card)
                  /\ notice' = "Added " \o card.name \o " to collection!"
                  /\ storage' = Saved(collection')
          /\ UNCHANGED failure
  /\ UNCHANGED <<phase, pending, collectionType, view, searching, server>>

\* the remove button is one per entry CollectionList has rendered
handleRemoveCard(index) ==
  /\ phase = "ready"
  /\ collectionType = "array"
  /\ op' = [name |-> "remove", index |-> index]
  /\ collection' = RemoveAt(collection, index)
  /\ storage' = Saved(collection')
  /\ UNCHANGED <<notice, phase, pending, collectionType, failure, view,
                 searching, server>>

NextClient ==
  \/ \E card \in Cards : handleAddToCollection(card)
  \/ \E index \in -1..MaxCards : handleRemoveCard(index)

SpecClient == Init /\ [][NextClient]_vars

(***************************************************************************)
(* The start of the tab over what the storage holds.  JSON.parse is the    *)
(* parser of the texts the storage can hold: strings without escapes,      *)
(* unsigned integers, null, arrays and objects, no white space.            *)
(***************************************************************************)
StartsWith(text, prefix) ==
  Len(text) >= Len(prefix) /\ SubSeq(text, 1, Len(prefix)) = prefix

Drop(text, n) == SubSeq(text, n + 1, Len(text))

Digits == {"0", "1", "2", "3", "4", "5", "6", "7", "8", "9"}

\* the length of the longest prefix of text made of chars
RECURSIVE Run(_, _)
Run(text, chars) ==
  IF Len(text) > 0 /\ SubSeq(text, 1, 1) \in chars
  THEN 1 + Run(Drop(text, 1), chars) ELSE 0

\* the number of characters before the first c of text, -1 without one
RECURSIVE UpTo(_, _)
UpTo(text, c) ==
  IF Len(text) = 0 THEN -1
  ELSE IF SubSeq(text, 1, 1) = c THEN 0
  ELSE LET n == UpTo(Drop(text, 1), c) IN IF n = -1 THEN -1 ELSE n + 1

\* SyntaxError
Fail == [ok |-> FALSE]

ParseString(text) ==
  IF ~StartsWith(text, "\"") THEN Fail
  ELSE LET n == UpTo(Drop(text, 1), "\"")
       IN  IF n = -1 THEN Fail
           ELSE [ok |-> TRUE, type |-> "string",
                 value |-> SubSeq(text, 2, n + 1), rest |-> Drop(text, n + 2)]

RECURSIVE ParseValue(_)
RECURSIVE ParseElements(_, _)
RECURSIVE ParseMembers(_, _)

ParseElements(text, acc) ==
  LET v == ParseValue(text)
  IN  IF ~v.ok THEN Fail
      ELSE IF StartsWith(v.rest, ",")
      THEN ParseElements(Drop(v.rest, 1), Append(acc, v.value))
      ELSE IF StartsWith(v.rest, "]")
      THEN [ok |-> TRUE, type |-> "array", value |-> Append(acc, v.value),
            rest |-> Drop(v.rest, 1)]
      ELSE Fail

ParseMembers(text, acc) ==
  LET k == ParseString(text)
  IN  IF ~k.ok \/ ~StartsWith(k.rest, ":") THEN Fail
      ELSE LET v == ParseValue(Drop(k.rest, 1))
               obj == (k.value :> v.value) @@ acc
           IN  IF ~v.ok THEN Fail
               ELSE IF StartsWith(v.rest, ",")
               THEN ParseMembers(Drop(v.rest, 1), obj)
               ELSE IF StartsWith(v.rest, "}")
               THEN [ok |-> TRUE, type |-> "object", value |-> obj,
                     rest |-> Drop(v.rest, 1)]
               ELSE Fail

ParseValue(text) ==
  IF StartsWith(text, "\"") THEN ParseString(text)
  ELSE IF StartsWith(text, "[]")
  THEN [ok |-> TRUE, type |-> "array", value |-> <<>>, rest |-> Drop(text, 2)]
  ELSE IF StartsWith(text, "[") THEN ParseElements(Drop(text, 1), <<>>)
  ELSE IF StartsWith(text, "{}")
  THEN [ok |-> TRUE, type |-> "object", value |-> <<>>, rest |-> Drop(text, 2)]
  ELSE IF StartsWith(text, "{") THEN ParseMembers(Drop(text, 1), <<>>)
  ELSE IF StartsWith(text, "null")
  THEN [ok |-> TRUE, type |-> "null", value |-> Null, rest |-> Drop(text, 4)]
  ELSE IF Run(text, Digits) > 0
  THEN [ok |-> TRUE, type |-> "number",
        value |-> ToNumber(SubSeq(text, 1, Run(text, Digits))),
        rest |-> Drop(text, Run(text, Digits))]
  ELSE Fail

\* JSON.parse: the whole text is one value, or SyntaxError
JsonParse(text) ==
  LET v == ParseValue(text)
  IN  IF v.ok /\ v.rest = "" THEN [ok |-> TRUE, type |-> v.type, value |-> v.value]
      ELSE Fail

\* JSON.stringify of the state value
ValueJson(type, value) ==
  CASE type = "array" -> Stringify(value)
    [] type = "object" -> IF DOMAIN value = {"id", "name"} THEN CardJson(value)
                          ELSE "{}"
    [] type = "number" -> NumToString(value)
    [] type = "null" -> "null"

\* what the storage is found holding: nothing, collections that were saved,
\* text that is no JSON, and JSON that is no array
StoredContents ==
  {"",
   Stringify(<<>>),
   Stringify(<<[id |-> "xy7-54", name |-> "Pikachu"]>>),
   Stringify(<<[id |-> "base1-4", name |-> "Charizard"],
               [id |-> "xy7-54", name |-> "Pikachu"]>>),
   "oops",
   "[{\"id\":",
   "{}",
   CardJson([id |-> "sm1-1", name |-> "Caterpie"]),
   "null",
   "5"}

\* the tab before its first render
InitStartup ==
  /\ now = 0
  /\ ticks = 0
  /\ cache = <<>>
  /\ inv = [r \in Reqs |-> IdleInv]
  /\ res = [r \in Reqs |-> NoRes]
  /\ net = [r \in Reqs |-> <<>>]
  /\ env = NoEnv
  /\ collection = <<>>
  /\ collectionType = "array"
  /\ notice = ""
  /\ \E text \in StoredContents : storage = [pokemonCollection |-> text]
  /\ op = NoOp
  /\ phase = "start"
  /\ pending = NoPending
  /\ failure = ""
  /\ view = EmptyView
  /\ searchCards = <<>>
  /\ isLoading = FALSE
  /\ error = Null
  /\ request = NoRequest

\* the first commit and its effects: the load effect reads the storage and
\* schedules the parsed value as the collection, the save effect writes the
\* collection of this render, which is useState([])
Mount ==
  /\ phase = "start"
  /\ LET savedCollection == storage.pokemonCollection
         parsed == JsonParse(savedCollection)
     IN  /\ op' = [name |-> "mount", saved |-> savedCollection]
         /\ pending' = IF savedCollection /= "" /\ parsed.ok
                        THEN [set |-> TRUE, type |-> parsed.type,
                              value |-> parsed.value]
                        ELSE NoPending
  /\ storage' = Saved(collection)
  /\ phase' = IF pending'.set THEN "mounted" ELSE "ready"
  /\ UNCHANGED <<collection, collectionType, notice, failure, view, searching,
                 server>>

\* reading collection.length of null
LengthError == "TypeError: Cannot read properties of null (reading 'length')"

\* the render of the scheduled collection: the header reads
\* collection.length, and the save effect follows the commit
Rerender ==
  /\ phase = "mounted"
  /\ pending.set
  /\ collection' = pending.value
  /\ collectionType' = pending.type
  /\ pending' = NoPending
  /\ IF pending.type = "null"
     THEN /\ phase' = "crashed"
          /\ failure' = LengthError
          /\ UNCHANGED storage
     ELSE /\ phase' = "ready"
          /\ storage' = [storage EXCEPT
                           !.pokemonCollection = ValueJson(pending.type, pending.value)]
          /\ UNCHANGED failure
  /\ UNCHANGED <<notice, op, view, searching, server>>

NextStartup ==
  \/ Mount
  \/ Rerender
  \/ \E card \in Cards : handleAddToCollection(card)
  \/ \E index \in -1..MaxCards : handleRemoveCard(index)

SpecStartup == InitStartup /\ [][NextStartup]_vars

(***************************************************************************)
(* The collection view (CollectionList).  A card carries its prices as a   *)
(* function from the paths of the price fields it has to their values, in  *)
(* cents.                                                                  *)
(***************************************************************************)
MaxShown == 2

\* return null
NoPrice == -1

\* the fields getCardPrice reads, in the order it reads them
PricePaths ==
  <<"prices.market", "prices.mid", "prices.high", "prices.low",
    "tcgplayer.prices.holofoil.market", "tcgplayer.prices.1stEdition.market",
    "tcgplayer.prices.unlimited.market",
    "tcgplayer.prices.reverseHolofoil.market", "tcgplayer.prices.normal.market",
    "cardmarket.prices.averageSellPrice", "cardmarket.prices.trendPrice">>

\* if (x): a field that is there and is not 0
Truthy(card, path) == path \in DOMAIN card.price /\ card.price[path] /= 0

getCardPrice(card) ==
  LET hits == {k \in DOMAIN PricePaths : Truthy(card, PricePaths[k])}
  IN  IF hits = {} THEN NoPrice
      ELSE card.price[PricePaths[CHOOSE k \in hits : \A h \in hits : k <= h]]

\* price || 0
OrZero(price) == IF price = NoPrice \/ price = 0 THEN 0 ELSE price

\* collection.reduce((sum, card) => sum + (getCardPrice(card) || 0), 0)
RECURSIVE totalValue(_)
totalValue(cards) ==
  IF cards = <<>> THEN 0
  ELSE totalValue(SubSeq(cards, 1, Len(cards) - 1))
       + OrZero(getCardPrice(cards[Len(cards)]))

\* toFixed(2) of an amount held in cents
ToFixed2(cents) ==
  NumToString(cents \div 100) \o "." \o NumToString((cents % 100) \div 10)
    \o NumToString(cents % 10)

NoPriceData == "No price data"

\* price ? `$${price.toFixed(2)}` : 'No price data'
PriceLabel(card) ==
  LET price == getCardPrice(card)
  IN  IF price /= NoPrice /\ price /= 0 THEN "$" \o ToFixed2(price)
      ELSE NoPriceData

\* the cards of the view: one price, none, a price of 0, prices of several
\* sources
PricedCards ==
  {[id |-> "xy7-54", name |-> "Pikachu", price |-> [p \in {"prices.market"} |-> 1250]],
   [id |-> "base1-4", name |-> "Charizard", price |-> <<>>],
   [id |-> "sm1-1", name |-> "Caterpie", price |-> [p \in {"prices.market"} |-> 0]],
   [id |-> "base1-58", name |-> "Pikachu",
    price |-> [p \in {"prices.market", "prices.mid"} |->
                 IF p = "prices.market" THEN 0 ELSE 500]],
   [id |-> "swsh4-44", name |-> "Pikachu V",
    price |-> [p \in {"tcgplayer.prices.holofoil.market",
                      "tcgplayer.prices.normal.market"} |->
                 IF p = "tcgplayer.prices.normal.market" THEN 100 ELSE 305]],
   [id |-> "ex1-1", name |-> "Mew",
    price |-> [p \in {"cardmarket.prices.trendPrice"} |-> 250]],
   [id |-> "neo1-9", name |-> "Lugia",
    price |-> [p \in {"prices.low", "tcgplayer.prices.unlimited.market"} |->
                 IF p = "prices.low" THEN 75 ELSE 900]]}

\* the tab holding a collection of priced cards, its view not opened yet
InitValue ==
  /\ now = 0
  /\ ticks = 0
  /\ cache = <<>>
  /\ inv = [r \in Reqs |-> IdleInv]
  /\ res = [r \in Reqs |-> NoRes]
  /\ net = [r \in Reqs |-> <<>>]
  /\ env = NoEnv
  /\ \E n \in 0..MaxShown : collection \in [1..n -> PricedCards]
  /\ collectionType = "array"
  /\ notice = ""
  /\ storage = [pokemonCollection |-> Stringify(collection)]
  /\ op = NoOp
  /\ phase = "ready"
  /\ pending = NoPending
  /\ failure = ""
  /\ view = EmptyView
  /\ searchCards = <<>>
  /\ isLoading = FALSE
  /\ error = Null
  /\ request = NoRequest

\* the render of CollectionList over the collection
CollectionList ==
  /\ phase = "ready"
  /\ op' = [name |-> "show"]
  /\ view' = IF Len(collection) = 0 THEN EmptyView
             ELSE [total |-> "$" \o ToFixed2(totalValue(collection)),
                   labels |-> [i \in DOMAIN collection |->
                                 PriceLabel(collection[i])]]
  /\ UNCHANGED <<collection, notice, storage, phase, pending, collectionType,
                 failure, searching, server>>

NextValue == CollectionList

SpecValue == InitValue /\ [][NextValue]_vars

(***************************************************************************)
(* The search of the client (App.handleSearch) against api/cards.js.  The  *)
(* search bar is disabled while a search is loading, so searches do not    *)
(* overlap; axios.get settles with a response, with no response, or with   *)
(* an error raised before the request was sent.                            *)
(***************************************************************************)
MaxSearches == 2

SearchTerms == {"pikachu", "mew"}

\* queryParams of the default provider as axios writes them into the URL
QueryParams(searchTerm) ==
  <<<<"search", searchTerm>>, <<"limit", "12">>, <<"provider", "tcg">>,
    <<"includeHistory", "false">>>>

\* IsEmptyResult taking no result for empty
IsEmptyResultNever(data) == FALSE

\* !response.data.data || response.data.data.length === 0
IsEmptyResult(data) == "data" \notin DOMAIN data \/ Len(data.data) = 0

NoCardsFound(searchTerm) ==
  "No cards found matching \"" \o searchTerm
    \o "\". Try a different search term or adjust your filters."

\* err.response.data?.message || 'Unknown error'
MessageOf(data) ==
  IF "message" \in DOMAIN data /\ data.message /= "" THEN data.message
  ELSE "Unknown error"

ServerErrorMessage(status, data) ==
  "Failed to fetch cards. " \o "Server error (" \o NumToString(status) \o "): "
    \o MessageOf(data)

NetworkErrorMessage ==
  "Failed to fetch cards. "
    \o "Network error: No response from server. Check your internet connection."

OtherErrorMessage(message) == "Failed to fetch cards. " \o "Error: " \o message

\* the texts of the errors axios raises before it sends
SetupErrors == {"Invalid URL"}

\* handleSearch up to its await
handleSearch(searchTerm) ==
  /\ phase = "ready"
  /\ ~isLoading
  /\ \E r \in 1..MaxSearches :
       /\ inv[r].pc = "idle"
       /\ r > 1 => inv[r - 1].pc /= "idle"
       /\ request' = [state |-> "pending", r |-> r, searchTerm |-> searchTerm]
  /\ isLoading' = TRUE
  /\ error' = Null
  /\ UNCHANGED <<searchCards, collecting, server>>

\* the request of the pending search reaches the proxy
ReceiveSearch ==
  /\ request.state = "pending"
  /\ ReceiveCards(request.r, "GET", QueryParams(request.searchTerm),
                  MaxSearches)

Settled(outcome) ==
  [state |-> "settled", r |-> request.r, searchTerm |-> request.searchTerm,
   outcome |-> outcome]

\* the await resolves or rejects with the response of the proxy; finally
SearchResponse ==
  LET response == res[request.r]
  IN  /\ request.state = "pending"
      /\ inv[request.r].pc = "done"
      /\ IF ok(response.status)
         THEN IF IsEmptyResult(response.body)
              THEN /\ error' = NoCardsFound(request.searchTerm)
                   /\ searchCards' = <<>>
              ELSE /\ searchCards' = response.body.data
                   /\ UNCHANGED error
         ELSE /\ error' = ServerErrorMessage(response.status, response.body)
              /\ searchCards' = <<>>
      /\ isLoading' = FALSE
      /\ request' = Settled("response")
      /\ UNCHANGED <<collecting, server>>

\* the await rejects without a response: the request or its answer is lost
SearchNoResponse ==
  /\ request.state = "pending"
  /\ error' = NetworkErrorMessage
  /\ searchCards' = <<>>
  /\ isLoading' = FALSE
  /\ request' = Settled("request")
  /\ UNCHANGED <<collecting, server>>

\* the await rejects before anything was sent
SearchSetupError(message) ==
  /\ request.state = "pending"
  /\ inv[request.r].pc = "idle"
  /\ error' = OtherErrorMessage(message)
  /\ searchCards' = <<>>
  /\ isLoading' = FALSE
  /\ request' = Settled("setup")
  /\ UNCHANGED <<collecting, server>>

\* what runs without the user: the proxy and the settling of the await
SearchProgress ==
  \/ ReceiveSearch
  \/ \E r \in Reqs, s \in ErrorStatuses : ResolveCards(r, s)
  \/ \E r \in Reqs, p \in Payloads : BodyCards(r, p)
  \/ \E r \in Reqs : ErrorCards(r)
  \/ \E r \in Reqs : TimeoutCards(r)
  \/ SearchResponse
  \/ SearchNoResponse
  \/ \E message \in SetupErrors : SearchSetupError(message)

NextSearch ==
  \/ \E searchTerm \in SearchTerms : handleSearch(searchTerm)
  \/ SearchProgress

SpecSearch == Init /\ [][NextSearch]_vars

\* every callback that is ready runs: the proxy answers or its timer fires,
\* and the await of the client settles
SpecSearchFair == SpecSearch /\ WF_vars(SearchProgress)

(***************************************************************************)
(* Vocabulary of the properties.                                           *)
(***************************************************************************)
Recognized == {"search", "setId", "limit", "provider", "minPrice",
               "maxPrice", "rarity", "includeHistory"}

DefaultOf(n) ==
  CASE n = "limit" -> "12"
    [] n = "provider" -> "tcg"
    [] n = "includeHistory" -> "false"
    [] OTHER -> ""

\* the recognized parameters of a query, defaults filled in
Normalized(q) ==
  [n \in Recognized |-> IF n \in DOMAIN q THEN q[n] ELSE DefaultOf(n)]

Query(r) == ParseQuery(inv[r].raw)
Done(r) == inv[r].pc = "done"
Calls(r) == Len(net[r])
\* the handler computed a cache key for r: a GET that passed validation
Keyed(r) == inv[r].key /= ""
\* r was answered 200 out of an upstream call of its own
FromFetch(r) == Done(r) /\ res[r].status = 200 /\ Calls(r) > 0
\* in this step the handler receives request r
ArrivesNow(r) == inv[r].pc = "idle" /\ inv'[r].pc /= "idle"

\* C1: once a GET with key K was answered from a successful upstream fetch
\* at time t, every later GET with key K arriving less than CACHE_TTL after
\* t issues no upstream call and gets 200 with the payload of that answer.
C1_LaterRequestGetsFirstPayload ==
  [][\A r1 \in Reqs, r2 \in Reqs :
       (/\ FromFetch(r1)
        /\ ArrivesNow(r2)
        /\ inv'[r2].method = "GET"
        /\ inv'[r2].key = inv[r1].key
        /\ now - res[r1].at < CACHE_TTL)
       => (/\ net'[r2] = <<>>
           /\ res'[r2].status = 200
           /\ res'[r2].body = res[r1].body)]_vars

\* C2: two valid queries that differ in a recognized parameter never get
\* the same cache key.
C2_DifferentQueriesDifferentKeys ==
  \A r1 \in Reqs, r2 \in Reqs :
    (Keyed(r1) /\ Keyed(r2) /\ Normalized(Query(r1)) /= Normalized(Query(r2)))
    => inv[r1].key /= inv[r2].key

\* C3: a GET that carries the recognized parameter values of an earlier
\* keyed request, in any order and with defaults written or omitted, gets
\* the same cache key; if the earlier one was answered from the upstream
\* less than CACHE_TTL ago, it is a cache hit with no upstream call.
C3_SameParametersSameKey ==
  [][\A r1 \in Reqs, r2 \in Reqs :
       (/\ Keyed(r1)
        /\ ArrivesNow(r2)
        /\ inv'[r2].method = "GET"
        /\ Normalized(ParseQuery(inv'[r2].raw)) = Normalized(Query(r1)))
       => (/\ inv'[r2].key = inv[r1].key
           /\ (FromFetch(r1) /\ now - res[r1].at < CACHE_TTL)
              => (/\ res'[r2].xcache = "HIT"
                  /\ res'[r2].status = 200
                  /\ net'[r2] = <<>>))]_vars

\* a hit on the entry of a request written differently: other parameter
\* order or a default written out
C3_Witness ==
  \E r1 \in Reqs, r2 \in Reqs :
    /\ FromFetch(r1) /\ Done(r2)
    /\ inv[r2].raw /= inv[r1].raw
    /\ Normalized(Query(r2)) = Normalized(Query(r1))
    /\ res[r2].xcache = "HIT" /\ Calls(r2) = 0
    /\ res[r2].at > res[r1].at

LastCall(r) == net[r][Len(net[r])]
\* call n of r came back with an upstream status
Answered(r, n) == n <= Calls(r) /\ net[r][n].outcome = "response"
ServerError(r, n) == Answered(r, n) /\ net[r][n].status >= 500
ClientError(r, n) ==
  Answered(r, n) /\ net[r][n].status >= 400 /\ net[r][n].status < 500
Envelope(r) == "error" \in DOMAIN res[r].body

\* C4: a request whose first upstream call returned 5xx and whose second
\* returned 200 is answered 200 with the second call's payload, after
\* exactly two calls, the second not before BACKOFF ms after the first ended.
C4_RetrySucceeds ==
  \A r \in Reqs :
    (Done(r) /\ ServerError(r, 1) /\ Answered(r, 2) /\ net[r][2].status = 200)
    => (/\ res[r].status = 200
        /\ res[r].body = net[r][2].payload
        /\ Calls(r) = 2
        /\ net[r][2].at >= net[r][1].endAt + BACKOFF)

C4_Witness ==
  \E r \in Reqs :
    /\ Done(r) /\ ServerError(r, 1) /\ Answered(r, 2)
    /\ net[r][2].status = 200 /\ res[r].body \in Payloads

\* C5: a request whose first upstream call and whose retry both returned 5xx
\* is answered with an error envelope carrying the status of the last call,
\* after exactly two calls.
C5_RetryExhausted ==
  \A r \in Reqs :
    (Done(r) /\ ServerError(r, 1) /\ ServerError(r, 2))
    => (/\ res[r].status = net[r][2].status
        /\ Envelope(r)
        /\ Calls(r) = 2)

C5_Witness ==
  \E r \in Reqs :
    /\ Done(r) /\ ServerError(r, 1) /\ ServerError(r, 2)
    /\ net[r][1].status /= net[r][2].status
    /\ res[r].status = 503

\* C6: no request ever issues more than two upstream calls.
C6_AtMostTwoCalls == \A r \in Reqs : Calls(r) <= 2

\* two calls were issued, the second failed too, and the request has ended
C6_Witness ==
  \E r \in Reqs :
    Done(r) /\ Calls(r) = 2 /\ net[r][2].outcome = "error"

\* C7: a second upstream call is issued only after a first attempt that
\* failed with 5xx or the timeout; a first attempt that failed with an
\* upstream 4xx or a transport error ends the request after one call with
\* an error envelope.
C7_RetryOnlyOn5xxOrTimeout ==
  \A r \in Reqs :
    /\ Calls(r) >= 2 => (ServerError(r, 1) \/ net[r][1].outcome = "abort")
    /\ (Done(r) /\ Calls(r) >= 1
        /\ (ClientError(r, 1) \/ net[r][1].outcome = "error"))
       => (Calls(r) = 1 /\ Envelope(r))

\* C7 as amended: the transport error joins the failures that are retried.
C7_RetryOn5xxTimeoutOrTransport ==
  \A r \in Reqs :
    /\ Calls(r) >= 2 => (\/ ServerError(r, 1)
                         \/ net[r][1].outcome \in {"abort", "error"})
    /\ (Done(r) /\ ClientError(r, 1))
       => (Calls(r) = 1 /\ Envelope(r) /\ res[r].status = net[r][1].status)

\* one request retried after a transport error, another ended by a 429
C7_Witness ==
  \E r1 \in Reqs, r2 \in Reqs :
    /\ Calls(r1) = 2 /\ net[r1][1].outcome = "error"
    /\ Done(r2) /\ Answered(r2, 1) /\ net[r2][1].status = 429
    /\ res[r2].status = 429

\* C8: whenever a request waits on the upstream, for the response or for
\* its body, at the first attempt or at the retry, a request timeout is armed.
C8_EveryAttemptGuarded ==
  \A r \in Reqs :
    inv[r].pc \in {"fetch", "body"} => inv[r].timer /= NoTimer

\* C9: a request that ends on an upstream call that failed with a transport
\* error or the timeout is answered 504 with an error envelope.
C9_TransportFailureIs504 ==
  \A r \in Reqs :
    (Done(r) /\ Calls(r) >= 1 /\ LastCall(r).outcome \in {"abort", "error"})
    => (res[r].status = 504 /\ Envelope(r) /\ res[r].sent = 1)

\* C9 as amended: 504 when the request ends on the timeout, 500 when it
\* ends on a transport error and the timeout has not fired.
C9_TimeoutIs504TransportIs500 ==
  \A r \in Reqs :
    (Done(r) /\ Calls(r) >= 1)
    => (/\ LastCall(r).outcome = "abort"
           => (res[r].status = 504 /\ Envelope(r) /\ res[r].sent = 1)
        /\ (LastCall(r).outcome = "error" /\ ~inv[r].aborted)
           => (res[r].status = 500 /\ Envelope(r) /\ res[r].sent = 1))

C9_Witness ==
  \E r1 \in Reqs, r2 \in Reqs :
    /\ Done(r1) /\ Calls(r1) >= 1 /\ LastCall(r1).outcome = "abort"
    /\ res[r1].status = 504
    /\ Done(r2) /\ Calls(r2) = 2 /\ LastCall(r2).outcome = "error"
    /\ res[r2].status = 500

\* C10: in the step that answers a request 200 out of an upstream call, the
\* cache holds, under the request's key, that payload stamped with the
\* current time.
C10_SuccessIsCached ==
  [][\A r \in Reqs :
       (/\ res[r].sent = 0 /\ res'[r].sent = 1
        /\ res'[r].status = 200 /\ Len(net'[r]) > 0)
       => (/\ inv'[r].key \in DOMAIN cache'
           /\ cache'[inv'[r].key].data = res'[r].body
           /\ cache'[inv'[r].key].timestamp = now')]_vars

\* in this step the handler answers r with 200 out of an upstream call
AnswersFromFetch(r) ==
  /\ res[r].sent = 0 /\ res'[r].sent = 1
  /\ res'[r].status = 200 /\ Len(net'[r]) > 0

\* C11: the step that inserts an entry and answers leaves, when the table
\* then holds more than CACHE_CEILING entries, exactly the entries whose age
\* is at most CACHE_TTL; when it holds CACHE_CEILING or fewer, every entry.
C11_EvictionAfterInsertion ==
  [][\A r \in Reqs :
       AnswersFromFetch(r)
       => LET held == DOMAIN cache \cup {inv[r].key}
              Age(k) == IF k = inv[r].key THEN 0 ELSE now' - cache[k].timestamp
          IN  IF Cardinality(held) > CACHE_CEILING
              THEN DOMAIN cache' = {k \in held : Age(k) <= CACHE_TTL}
              ELSE DOMAIN cache' = held]_vars

\* in this step the handler answers r out of the table
AnswersFromCache(r) ==
  res[r].sent = 0 /\ res'[r].sent = 1 /\ res'[r].xcache = "HIT"

\* C12: a hit is served only from an entry younger than CACHE_TTL; a GET
\* whose key maps to an entry of age CACHE_TTL or more calls the upstream
\* and leaves the table as it is; the answer of a successful fetch leaves
\* its payload under the key, stamped with the current time.
C12_ExpiredEntryIsSuperseded ==
  [][\A r \in Reqs :
       /\ AnswersFromCache(r)
          => (/\ inv'[r].key \in DOMAIN cache
              /\ now - cache[inv'[r].key].timestamp < CACHE_TTL
              /\ res'[r].body = cache[inv'[r].key].data)
       /\ (/\ ArrivesNow(r)
           /\ inv'[r].key \in DOMAIN cache
           /\ now - cache[inv'[r].key].timestamp >= CACHE_TTL)
          => (/\ res'[r].sent = 0
              /\ Len(net'[r]) = 1
              /\ cache' = cache)
       /\ (AnswersFromFetch(r) /\ inv[r].key \in DOMAIN cache)
          => cache'[inv[r].key] = [data |-> res'[r].body, timestamp |-> now']]_vars

\* a request that arrived when the entry was exactly CACHE_TTL old fetched
\* another payload, which is now the entry
C12_Witness ==
  \E r1 \in Reqs, r2 \in Reqs :
    /\ FromFetch(r1) /\ FromFetch(r2)
    /\ inv[r1].key = inv[r2].key
    /\ net[r2][1].at - res[r1].at = CACHE_TTL
    /\ res[r2].body /= res[r1].body
    /\ cache[inv[r2].key] = [data |-> res[r2].body, timestamp |-> res[r2].at]

\* C13: a 200 response carries X-Cache HIT exactly when it was served out
\* of the table with no upstream call, and MISS exactly when its payload
\* came from an upstream call of this request; no response of a request
\* that called the upstream carries HIT.
C13_XCacheTellsTheSource ==
  [][\A r \in Reqs :
       (res[r].sent = 0 /\ res'[r].sent = 1)
       => (/\ res'[r].status = 200
              => (/\ res'[r].xcache = "HIT"
                     <=> (/\ net'[r] = <<>>
                          /\ inv'[r].key \in DOMAIN cache
                          /\ res'[r].body = cache[inv'[r].key].data)
                  /\ res'[r].xcache = "MISS"
                     <=> (/\ Len(net'[r]) > 0
                          /\ \/ res'[r].body = net'[r][1].payload
                             \/ /\ net'[r][1].status = 404
                                /\ res'[r].body = emptyResult))
           /\ Len(net'[r]) > 0 => res'[r].xcache /= "HIT")]_vars

\* one request answered from its own upstream call, a later one from the table
C13_Witness ==
  \E r1 \in Reqs, r2 \in Reqs :
    /\ FromFetch(r1) /\ res[r1].xcache = "MISS" /\ res[r1].body \in Payloads
    /\ Done(r2) /\ res[r2].status = 200 /\ Calls(r2) = 0
    /\ res[r2].xcache = "HIT" /\ res[r2].body = res[r1].body

\* C14: a request whose method is not GET is answered at once, 200 with an
\* empty body for OPTIONS and 405 with an error envelope otherwise; no
\* upstream call is issued, no cache key is computed, the table is unchanged.
C14_OtherMethodsTouchNothing ==
  [][\A r \in Reqs :
       (ArrivesNow(r) /\ inv'[r].method /= "GET")
       => (/\ res'[r].sent = 1
           /\ IF inv'[r].method = "OPTIONS"
              THEN res'[r].status = 200 /\ res'[r].body = NoBody
              ELSE res'[r].status = 405 /\ "error" \in DOMAIN res'[r].body
           /\ net'[r] = <<>>
           /\ inv'[r].key = "" /\ res'[r].xcache = ""
           /\ cache' = cache)]_vars

\* a POST was answered 405 by an instance whose table holds the entry the
\* POST's query would map to
C14_Witness ==
  \E r \in Reqs :
    /\ Done(r) /\ inv[r].method = "POST" /\ res[r].status = 405
    /\ Calls(r) = 0
    /\ CacheKey(Query(r)) \in DOMAIN cache

\* C15: a GET is answered 400 exactly when it has neither a search term nor
\* a set identifier, and then without an upstream call or a change of the
\* table; a GET with a set identifier and no search term is served from the
\* table or by an upstream call that carries the set identifier.
C15_BadRequestIffNeitherGiven ==
  [][\A r \in Reqs :
       (ArrivesNow(r) /\ inv'[r].method = "GET")
       => LET q == ParseQuery(inv'[r].raw)
              neither == Param(q, "search") = "" /\ Param(q, "setId") = ""
          IN  /\ (res'[r].sent = 1 /\ res'[r].status = 400) <=> neither
              /\ neither => (net'[r] = <<>> /\ cache' = cache)
              /\ (Param(q, "search") = "" /\ Param(q, "setId") /= "")
                 => \/ res'[r].xcache = "HIT"
                    \/ /\ Len(net'[r]) = 1
                       /\ "setId" \in DOMAIN inv'[r].url
                       /\ inv'[r].url["setId"] = q["setId"]]_vars

\* the page size of the upstream URL of r
PageSizeSent(r) ==
  IF "pageSize" \in DOMAIN inv[r].url THEN inv[r].url["pageSize"]
  ELSE inv[r].url["limit"]

\* C16: a GET with a search term is never answered 400 whatever its limit;
\* the page size of every upstream call made for a numeric or absent limit
\* is a number of at most PAGE_CAP, and the default 12 for an absent limit.
C16_PageSizeAtMostCap ==
  \A r \in Reqs :
    /\ (Done(r) /\ inv[r].method = "GET" /\ Param(Query(r), "search") /= "")
       => res[r].status /= 400
    /\ (Calls(r) > 0 /\ ToNumber(LimitText(Query(r))) /= NaN)
       => (/\ ToNumber(PageSizeSent(r)) /= NaN
           /\ ToNumber(PageSizeSent(r)) <= PAGE_CAP
           /\ "limit" \notin DOMAIN Query(r)
              => PageSizeSent(r) = NumToString(DEFAULT_LIMIT))

\* the bearer credential is not set in the process environment
CredentialUnset == env["POKEMON_API_KEY"] = ""

ConfigError(body) ==
  "error" \in DOMAIN body /\ body["error"] = "Server configuration error"

\* C17: with no credential in the environment, a valid GET for
\* provider=pricetracker is answered at once with the configuration-error
\* envelope, without an upstream call; a valid GET for any other provider
\* is served from the table or by an upstream call; and no response is a
\* configuration error unless it is the former case.
C17_MissingCredentialFailsFast ==
  [][\A r \in Reqs :
       /\ (/\ ArrivesNow(r) /\ inv'[r].method = "GET"
           /\ CredentialUnset
           /\ \/ Param(ParseQuery(inv'[r].raw), "search") /= ""
              \/ Param(ParseQuery(inv'[r].raw), "setId") /= "")
          => IF ProviderOf(ParseQuery(inv'[r].raw)) = "pricetracker"
             THEN /\ res'[r].sent = 1 /\ res'[r].status = 500
                  /\ ConfigError(res'[r].body)
                  /\ net'[r] = <<>> /\ cache' = cache
             ELSE \/ res'[r].sent = 1 /\ res'[r].status = 200
                     /\ res'[r].xcache = "HIT"
                  \/ res'[r].sent = 0 /\ Len(net'[r]) = 1
       /\ (res[r].sent = 0 /\ res'[r].sent = 1 /\ ConfigError(res'[r].body))
          => (CredentialUnset /\ inv'[r].provider = "pricetracker")]_vars

\* without the credential, one request for the keyed provider was refused
\* and one for the open provider was answered from the upstream
C17_Witness ==
  \E r1 \in Reqs, r2 \in Reqs :
    /\ CredentialUnset
    /\ Done(r1) /\ inv[r1].provider = "pricetracker"
    /\ ConfigError(res[r1].body) /\ Calls(r1) = 0
    /\ FromFetch(r2) /\ inv[r2].provider = "tcg"
    /\ res[r2].body \in Payloads

\* the last upstream call of r came back with a status the handler reports
\* as an error: not 2xx, and not the 404 that api/cards.js turns into an
\* empty result
SurfacedError(r) ==
  /\ Done(r) /\ Calls(r) > 0
  /\ LastCall(r).outcome = "response"
  /\ ~(LastCall(r).status >= 200 /\ LastCall(r).status <= 299)
  /\ ~(inv[r].handler = "cards" /\ LastCall(r).status = 404)

\* C18: a request that ends on an upstream non-2xx status reported as an
\* error is answered once, with that status and an envelope whose error
\* text is not empty.
C18_UpstreamStatusPreserved ==
  \A r \in Reqs :
    SurfacedError(r)
    => (/\ res[r].status = LastCall(r).status
        /\ Envelope(r) /\ res[r].body["error"] /= ""
        /\ res[r].sent = 1)

\* a 429, a 401 or 403, and a 5xx have each been passed on
C18_Witness ==
  \E r1 \in Reqs, r2 \in Reqs :
    /\ SurfacedError(r1) /\ res[r1].status = 429
    /\ SurfacedError(r2) /\ res[r2].status \in {401, 403, 500, 503}

\* the last upstream call of r came back 404 from the open provider
NotFound(r) ==
  /\ Len(net[r]) > 0
  /\ net[r][Len(net[r])].outcome = "response"
  /\ net[r][Len(net[r])].status = 404
  /\ inv[r].provider /= "pricetracker"

Ids(cards) == {cards[i].id : i \in DOMAIN cards}

\* C20: the collection never holds two entries with one identifier; an add
\* of an identifier that is present leaves the collection as it is and
\* raises the duplicate notice, an add of an absent one appends the card.
C20_NoDuplicateIdentifiers ==
  [][/\ \A i \in DOMAIN collection', j \in DOMAIN collection' :
          collection'[i].id = collection'[j].id => i = j
     /\ op'.name = "add"
        => IF op'.card.id \in Ids(collection)
           THEN collection' = collection /\ notice' = DuplicateNotice
           ELSE collection' = Append(collection, op'.card)]_vars

\* after adds and a remove, the add of a card whose identifier is held by
\* another card object was refused
C20_Witness ==
  /\ Len(collection) >= 2
  /\ op.name = "add"
  /\ op.card.id \in Ids(collection)
  /\ \A i \in DOMAIN collection : collection[i] /= op.card
  /\ notice = DuplicateNotice
  /\ collection[1].id /= "xy7-54"

\* C21: a remove of position i, counted from 0, of a collection of n entries
\* leaves, for 0 <= i < n, the n-1 other entries in their order, and for
\* any other i the collection as it was.
C21_RemoveByPosition ==
  [][op'.name = "remove"
     => LET i == op'.index
            n == Len(collection)
        IN  IF 0 <= i /\ i < n
            THEN /\ Len(collection') = n - 1
                 /\ \A j \in 1..(n - 1) :
                      collection'[j] = IF j <= i THEN collection[j]
                                       ELSE collection[j + 1]
            ELSE collection' = collection]_vars

\* position 0 was removed from a collection of three entries
C21_Witness ==
  /\ op.name = "remove" /\ op.index = 0
  /\ Len(collection) = 2

\* C22: the storage holds, under its single key, the JSON text of the whole
\* collection as it is in memory, after every add and every remove.
C22_StorageMirrorsCollection ==
  /\ DOMAIN storage = {"pokemonCollection"}
  /\ storage.pokemonCollection = Stringify(collection)

\* an add and a remove have both changed the collection, and entries remain
C22_Witness ==
  /\ op.name = "remove" /\ op.index = 0
  /\ Len(collection) = 1
  /\ storage.pokemonCollection = Stringify(collection)

\* the stored text the tab started over is the JSON text of a list of cards
StartedOverList ==
  /\ op.name = "mount"
  /\ JsonParse(op.saved).ok
  /\ JsonParse(op.saved).type = "array"

\* the stored text the tab started over is there and is not the JSON text
\* of a list
StartedOverOther ==
  /\ op.name = "mount"
  /\ op.saved /= ""
  /\ ~(JsonParse(op.saved).ok /\ JsonParse(op.saved).type = "array")

\* C23: a tab that starts over a stored list L never has the storage hold
\* another list than L, from its first render on, and once the start has
\* completed its collection is L, entry for entry.
C23_StartupKeepsStoredList ==
  StartedOverList
    => /\ storage.pokemonCollection = op.saved
       /\ phase = "ready" => /\ collectionType = "array"
                              /\ Stringify(collection) = op.saved

\* C24: a tab that starts over stored text that is not a list has, once the
\* start is over, the empty list as its collection, and has raised nothing.
C24_OtherContentIsEmptyList ==
  StartedOverOther /\ phase /= "mounted"
    => /\ phase = "ready"
       /\ collectionType = "array"
       /\ collection = <<>>
       /\ failure = ""

\* the first price field a card has, in the order of PricePaths, whatever
\* its value
FirstAvailable(card) ==
  LET has == {k \in DOMAIN PricePaths : PricePaths[k] \in DOMAIN card.price}
  IN  IF has = {} THEN NoPrice
      ELSE card.price[PricePaths[CHOOSE k \in has : \A h \in has : k <= h]]

RECURSIVE SumFirstAvailable(_)
SumFirstAvailable(cards) ==
  IF cards = <<>> THEN 0
  ELSE SumFirstAvailable(SubSeq(cards, 1, Len(cards) - 1))
       + (IF FirstAvailable(cards[Len(cards)]) = NoPrice THEN 0
          ELSE FirstAvailable(cards[Len(cards)]))

\* C25: the view of a collection shows as total the sum of the first price
\* each card has in the fixed order, a card without any price adding 0; and
\* it labels a card "No price data" exactly when the card has no price.
C25_TotalOfFirstAvailablePrices ==
  op.name = "show" /\ Len(collection) > 0
    => /\ view.total = "$" \o ToFixed2(SumFirstAvailable(collection))
       /\ \A i \in DOMAIN collection :
            (view.labels[i] = NoPriceData)
              <=> (FirstAvailable(collection[i]) = NoPrice)

\* C26: no request writes the entry of its key from a fetch of its own
\* while the table holds a fresh entry for that key, written by another
\* request since this one missed: two overlapping requests never both
\* miss, both call the upstream and both write the entry of one key.
C26_OneFetchPerKey ==
  [][\A r \in Reqs :
       AnswersFromFetch(r) => ~Fresh(cache, inv[r].key, now)]_vars

\* the search of the client has ended, in the way given
SearchEnded(outcome) == request.state = "settled" /\ request.outcome = outcome

\* C27: a search that failed shows one of three messages: with a response,
\* the server-error message made of the status and of a text of the
\* envelope the proxy sent; with no response, the network-error message;
\* otherwise the message made of the text of the error.
C27_FailureShowsProxyText ==
  /\ (SearchEnded("response") /\ ~ok(res[request.r].status))
       => \E field \in DOMAIN res[request.r].body :
            error = "Failed to fetch cards. Server error ("
                      \o NumToString(res[request.r].status) \o "): "
                      \o res[request.r].body[field]
  /\ SearchEnded("request") => error = NetworkErrorMessage
  /\ SearchEnded("setup")
       => \E message \in SetupErrors : error = OtherErrorMessage(message)

C29_ExactlyOneResponse ==
  /\ [](\A r \in Reqs : /\ res[r].sent <= 1
                         /\ Done(r) <=> res[r].sent = 1)
  /\ \A r \in Reqs : (inv[r].pc /= "idle") ~> Done(r)

\* in this step request r is answered with an error status
AnswersWithError(r) ==
  res[r].sent = 0 /\ res'[r].sent = 1 /\ res'[r].status >= 400

\* C30: the step that answers a request with an error status leaves the
\* table as it was, and the table changes only in a step that answers a
\* request 200 from a fetch of its own: a request that ends in an error
\* has added, overwritten and removed nothing.
C30_ErrorLeavesCacheUnchanged ==
  [][/\ \A r \in Reqs : AnswersWithError(r) => cache' = cache
     /\ cache' /= cache => \E r \in Reqs : AnswersFromFetch(r)]_vars

\* a request was answered 504 after another one was answered from its
\* fetch, and the table holds the entry of that one only
C30_Witness ==
  \E r1 \in Reqs, r2 \in Reqs :
    /\ FromFetch(r1)
    /\ Done(r2) /\ res[r2].status = 504
    /\ inv[r2].key /= inv[r1].key
    /\ DOMAIN cache = {inv[r1].key}
    /\ cache[inv[r1].key].data = res[r1].body

====
